---- MODULE Spec2Model ----
(***************************************************************************)
(* Model of pdf_processor.py (class PDFProcessor).                         *)
(*                                                                         *)
(* Python strings are sequences of one-character strings.  Four            *)
(* specifications share the variables:                                     *)
(*   SpecSanitize  sanitize_filename applied once and twice to a string    *)
(*   SpecParse     _parse_text_response applied to a response text         *)
(*   SpecAnalyze   analyze_with_perplexity applied to metadata and a call  *)
(*                 outcome                                                 *)
(*   Spec          process_all_pdfs / process_pdf over a base folder,      *)
(*                 run after run                                           *)
(***************************************************************************)
EXTENDS Integers, Sequences, FiniteSets, TLC

VARIABLES
    \* SpecSanitize
    s_name, s_once, s_twice, s_pc,
    \* SpecParse
    p_content, p_lines, p_result, p_pc,
    \* SpecAnalyze
    a_file, a_response, a_text, a_metadata, a_data, a_pc,
    \* Spec: the base folder, the run in progress and its history
    root_files, out_exists, out_folders,
    test, pdf_files, idx, successful, failed, pc,
    analyzed_data, last, n_raised, n_emitted, run, prev_run

sanVars == <<s_name, s_once, s_twice, s_pc>>

parseVars == <<p_content, p_lines, p_result, p_pc>>

anaVars == <<a_file, a_response, a_text, a_metadata, a_data, a_pc>>

fsVars == <<root_files, out_exists, out_folders>>

runVars == <<test, pdf_files, idx, successful, failed, pc>>

histVars == <<analyzed_data, last, n_raised, n_emitted, run, prev_run>>

pipeVars == <<fsVars, runVars, histVars>>

vars == <<sanVars, parseVars, anaVars, pipeVars>>

----------------------------------------------------------------------------
(* Bounds *)

MaxLen == 4

MaxTokens == 4

MaxDocs == 2

MaxRuns == 2

----------------------------------------------------------------------------
(* Strings *)

StringsUpTo(alphabet, n) == UNION {[1..k -> alphabet] : k \in 0..n}

RECURSIVE Concat(_)
\* ''.join(parts)
Concat(parts) == IF parts = <<>> THEN <<>> ELSE Head(parts) \o Concat(Tail(parts))

UpperLetters == <<"A", "B", "C", "D", "E", "F", "G", "H", "I", "J", "K", "L", "M", "N", "O", "P", "Q", "R", "S", "T", "U", "V", "W", "X", "Y", "Z">>

LowerLetters == <<"a", "b", "c", "d", "e", "f", "g", "h", "i", "j", "k", "l", "m", "n", "o", "p", "q", "r", "s", "t", "u", "v", "w", "x", "y", "z">>

\* str.lower()
Lower(s) ==
    [i \in 1..Len(s) |->
        IF \E k \in 1..26 : UpperLetters[k] = s[i]
          THEN LowerLetters[CHOOSE k \in 1..26 : UpperLetters[k] = s[i]]
          ELSE s[i]]

\* sub in s
Contains(sub, s) ==
    \E i \in 1..(Len(s) - Len(sub) + 1) : SubSeq(s, i, i + Len(sub) - 1) = sub

\* the characters str.strip() removes
Whitespace == {" ", "\t", "\n", "\r"}

RECURSIVE Split(_, _)
\* str.split(sep) for a one-character sep
Split(s, sep) ==
    IF \E i \in 1..Len(s) : s[i] = sep
      THEN LET i == CHOOSE j \in 1..Len(s) :
                        s[j] = sep /\ \A k \in 1..(j - 1) : s[k] # sep
           IN  <<SubSeq(s, 1, i - 1)>> \o Split(SubSeq(s, i + 1, Len(s)), sep)
      ELSE <<s>>

\* str.split(sep, 1)[1], used only where sep occurs in s
AfterFirst(s, sep) ==
    LET i == CHOOSE j \in 1..Len(s) :
                   s[j] = sep /\ \A k \in 1..(j - 1) : s[k] # sep
    IN  SubSeq(s, i + 1, Len(s))

\* str.replace(old, new) for one-character old and new
Replace(s, old, new) == [i \in 1..Len(s) |-> IF s[i] = old THEN new ELSE s[i]]

RECURSIVE LStrip(_, _)
\* str.lstrip(chars)
LStrip(s, chars) ==
    IF s # <<>> /\ s[1] \in chars THEN LStrip(Tail(s), chars) ELSE s

RECURSIVE RStrip(_, _)
\* str.rstrip(chars)
RStrip(s, chars) ==
    IF s # <<>> /\ s[Len(s)] \in chars
      THEN RStrip(SubSeq(s, 1, Len(s) - 1), chars)
      ELSE s

\* str.strip(chars)
Strip(s, chars) == RStrip(LStrip(s, chars), chars)

----------------------------------------------------------------------------
(* Namer: sanitize_filename *)

\* the character class of re.sub(r'[<>:"/\\|?*]', '', name)
InvalidChars == {"<", ">", ":", "\"", "/", "\\", "|", "?", "*"}

RemoveInvalid(s) == SelectSeq(s, LAMBDA c : c \notin InvalidChars)

RECURSIVE CollapseUnderscores(_)
\* re.sub(r'_+', '_', s)
CollapseUnderscores(s) ==
    IF Len(s) <= 1 THEN s
    ELSE IF s[1] = "_" /\ s[2] = "_" THEN CollapseUnderscores(Tail(s))
    ELSE <<s[1]>> \o CollapseUnderscores(Tail(s))

\* the runs of '_' are collapsed before the spaces become '_'
sanitize_filename_collapseFirst(name) ==
    Strip(Replace(CollapseUnderscores(RemoveInvalid(name)), " ", "_"), {"_"})

\* the final strip('_') is left out
sanitize_filename_noStrip(name) ==
    CollapseUnderscores(Replace(RemoveInvalid(name), " ", "_"))

sanitize_filename(name) ==
    Strip(CollapseUnderscores(Replace(RemoveInvalid(name), " ", "_")), {"_"})

----------------------------------------------------------------------------
(* SpecSanitize: sanitize_filename on every string over SanAlphabet *)

SanAlphabet == {"a", " ", "_", ":", "/", "\""}

SanInputs == StringsUpTo(SanAlphabet, MaxLen)

SanitizeOnce ==
    /\ s_pc = "input"
    /\ s_once' = sanitize_filename(s_name)
    /\ s_pc' = "once"
    /\ UNCHANGED <<s_name, s_twice>>
    /\ UNCHANGED <<parseVars, anaVars, pipeVars>>

SanitizeTwice ==
    /\ s_pc = "once"
    /\ s_twice' = sanitize_filename(s_once)
    /\ s_pc' = "twice"
    /\ UNCHANGED <<s_name, s_once>>
    /\ UNCHANGED <<parseVars, anaVars, pipeVars>>

Chars(s) == {s[i] : i \in 1..Len(s)}

HasDoubleUnderscore(s) == \E i \in 1..(Len(s) - 1) : s[i] = "_" /\ s[i + 1] = "_"

\* C4: sanitize is idempotent: sanitizing the sanitized string returns it
\* unchanged.
C4_Idempotent == s_pc = "twice" => s_twice = s_once

C4_Witness ==
    /\ s_pc = "twice"
    /\ s_once # s_name
    /\ s_once # <<>>
    /\ " " \in Chars(s_name)
    /\ "_" \in Chars(s_once)

\* C5: the sanitized string holds no illegal character and no space, neither
\* starts nor ends with '_', has no two adjacent '_', and is empty when the
\* input holds only illegal characters.
C5_SanitizedShape ==
    s_pc # "input" =>
        /\ Chars(s_once) \cap (InvalidChars \cup {" "}) = {}
        /\ s_once # <<>> => s_once[1] # "_" /\ s_once[Len(s_once)] # "_"
        /\ ~HasDoubleUnderscore(s_once)
        /\ Chars(s_name) \subseteq InvalidChars => s_once = <<>>

C5_Witness ==
    /\ s_pc = "once"
    /\ s_name = <<"_", ":", " ", "a">>
    /\ s_once = <<"a">>

----------------------------------------------------------------------------
(* Field Analyzer: _parse_text_response *)

UnknownTitle == <<"U", "n", "k", "n", "o", "w", "n", " ", "T", "i", "t", "l", "e">>

UnknownAuthor == <<"U", "n", "k", "n", "o", "w", "n", " ", "A", "u", "t", "h", "o", "r">>

ParseDefaultKeywords == <<"\"", "d", "o", "c", "u", "m", "e", "n", "t", "\"", ",", " ", "\"", "a", "n", "a", "l", "y", "s", "i", "s", "\"">>

ParseDefaultSummary == <<"S", "u", "m", "m", "a", "r", "y", " ", "e", "x", "t", "r", "a", "c", "t", "i", "o", "n", " ", "f", "a", "i", "l", "e", "d", ".", " ", "M", "a", "n", "u", "a", "l", " ", "r", "e", "v", "i", "e", "w", " ", "r", "e", "q", "u", "i", "r", "e", "d", ".">>

\* the result dict before the loop over the lines
ParseDefaults ==
    [title |-> UnknownTitle, author |-> UnknownAuthor,
     keywords |-> ParseDefaultKeywords, summary |-> ParseDefaultSummary]

W_title == <<"t", "i", "t", "l", "e">>

W_author == <<"a", "u", "t", "h", "o", "r">>

W_keyword == <<"k", "e", "y", "w", "o", "r", "d">>

W_summary == <<"s", "u", "m", "m", "a", "r", "y">>

HasColon(line) == \E i \in 1..Len(line) : line[i] = ":"

\* every branch is tried on every line: a line naming two fields sets both
ParseLine_allBranches(result, line) ==
    LET v == Strip(AfterFirst(line, ":"), Whitespace)
        q == Strip(v, {"\""})
    IN  IF ~HasColon(line) THEN result
        ELSE [title |-> IF Contains(W_title, Lower(line)) THEN q ELSE result.title,
              author |-> IF Contains(W_author, Lower(line)) THEN q ELSE result.author,
              keywords |-> IF Contains(W_keyword, Lower(line)) THEN v ELSE result.keywords,
              summary |-> IF Contains(W_summary, Lower(line)) THEN v ELSE result.summary]

\* the body of `for line in lines`
ParseLine(result, line) ==
    IF Contains(W_title, Lower(line)) /\ HasColon(line)
      THEN [result EXCEPT
              !.title = Strip(Strip(AfterFirst(line, ":"), Whitespace), {"\""})]
    ELSE IF Contains(W_author, Lower(line)) /\ HasColon(line)
      THEN [result EXCEPT
              !.author = Strip(Strip(AfterFirst(line, ":"), Whitespace), {"\""})]
    ELSE IF Contains(W_keyword, Lower(line)) /\ HasColon(line)
      THEN [result EXCEPT !.keywords = Strip(AfterFirst(line, ":"), Whitespace)]
    ELSE IF Contains(W_summary, Lower(line)) /\ HasColon(line)
      THEN [result EXCEPT !.summary = Strip(AfterFirst(line, ":"), Whitespace)]
    ELSE result

RECURSIVE ParseLines(_, _)
\* the loop over the lines
ParseLines(result, lines) ==
    IF lines = <<>> THEN result
    ELSE ParseLines(ParseLine(result, Head(lines)), Tail(lines))

parse_text_response(content) == ParseLines(ParseDefaults, Split(content, "\n"))

----------------------------------------------------------------------------
(* SpecParse: _parse_text_response, line by line, on every response text   *)
(* made of at most MaxTokens of the ParseTokens                            *)

T_Author == <<"A", "u", "t", "h", "o", "r">>

T_Summary == <<"S", "u", "m", "m", "a", "r", "y">>

T_JaneDoe == <<"J", "a", "n", "e", " ", "D", "o", "e">>

ParseTokens ==
    {T_Author, W_title, W_keyword, T_Summary, T_JaneDoe,
     <<":">>, <<" ">>, <<"\"">>, <<"\n">>}

ParseContents == {Concat(ts) : ts \in StringsUpTo(ParseTokens, MaxTokens)}

\* lines = content.split('\n'); result = {defaults}
ParseStart ==
    /\ p_pc = "call"
    /\ p_lines' = Split(p_content, "\n")
    /\ p_result' = ParseDefaults
    /\ p_pc' = "loop"
    /\ UNCHANGED p_content
    /\ UNCHANGED <<sanVars, anaVars, pipeVars>>

\* one iteration of the loop
ParseStep ==
    /\ p_pc = "loop"
    /\ p_lines # <<>>
    /\ p_result' = ParseLine(p_result, Head(p_lines))
    /\ p_lines' = Tail(p_lines)
    /\ UNCHANGED <<p_content, p_pc>>
    /\ UNCHANGED <<sanVars, anaVars, pipeVars>>

\* return result
ParseReturn ==
    /\ p_pc = "loop"
    /\ p_lines = <<>>
    /\ p_pc' = "return"
    /\ UNCHANGED <<p_content, p_lines, p_result>>
    /\ UNCHANGED <<sanVars, anaVars, pipeVars>>

Fields == {"title", "author", "keywords", "summary"}

FieldWord(f) ==
    CASE f = "title" -> W_title
      [] f = "author" -> W_author
      [] f = "keywords" -> W_keyword
      [] f = "summary" -> W_summary

\* the text after the first colon, trimmed, unquoted for title and author
FieldText(f, line) ==
    LET v == Strip(AfterFirst(line, ":"), Whitespace)
    IN  IF f \in {"title", "author"} THEN Strip(v, {"\""}) ELSE v

\* the line names field f: it holds f's word, in any case, and a colon
Names(f, line) == Contains(FieldWord(f), Lower(line)) /\ HasColon(line)

\* the value of the last line for which Sets(f, line) holds, else the default
LastSet(Sets(_, _), f, lines) ==
    LET hits == {i \in 1..Len(lines) : Sets(f, lines[i])}
    IN  IF hits = {} THEN ParseDefaults[f]
        ELSE FieldText(f, lines[CHOOSE i \in hits : \A j \in hits : j <= i])

FieldOrder == <<"title", "author", "keywords", "summary">>

\* f is the first field, in the order title, author, keywords, summary,
\* that the line names
NamesFirst(f, line) ==
    /\ Names(f, line)
    /\ \A k \in 1..4 : Names(FieldOrder[k], line) =>
            \E m \in 1..k : FieldOrder[m] = f

----------------------------------------------------------------------------
(* Extractor: extract_pdf_text, get_pdf_metadata *)

\* dict.get(key, default)
Get(d, key, default) == IF key \in DOMAIN d THEN d[key] ELSE default

EmptyDict == [k \in {} |-> <<>>]

MyThesis ==
    <<"M", "y", " ", "T", "h", "e", "s", "i", "s">>

JSmith ==
    <<"J", ".", " ", "S", "m", "i", "t", "h">>

\* A PDF file: kind "ok" opens and parses, "corrupt" opens but PdfReader
\* raises, "denied" cannot be opened; info is the document information
\* dictionary, pages the text of each page.
F_Full ==
    [kind |-> "ok",
     info |-> [k \in {"/Title", "/Author"} |->
                 IF k = "/Title" THEN MyThesis ELSE JSmith],
     pages |-> <<<<"a">>, <<"b">>, <<"c">>, <<"d">>, <<"e">>, <<"f">>>>]

F_Bare == [kind |-> "ok", info |-> EmptyDict, pages |-> <<<<"a">>>>]

F_Corrupt == [kind |-> "corrupt", info |-> EmptyDict, pages |-> <<>>]

F_Denied == [kind |-> "denied", info |-> EmptyDict, pages |-> <<>>]

PdfFiles == {F_Full, F_Bare, F_Corrupt, F_Denied}

MaxPages == 5

MaxChars == 160000

RECURSIVE PagesText(_)
\* text += page.extract_text() + "\n", page after page
PagesText(pages) ==
    IF pages = <<>> THEN <<>>
    ELSE Head(pages) \o <<"\n">> \o PagesText(Tail(pages))

Min(a, b) == IF a <= b THEN a ELSE b

extract_pdf_text(file) ==
    IF file.kind # "ok" THEN <<>>
    ELSE LET max_pages == Min(MaxPages, Len(file.pages))
             text == PagesText(SubSeq(file.pages, 1, max_pages))
         IN  SubSeq(text, 1, Min(MaxChars, Len(text)))

get_pdf_metadata(file) ==
    IF file.kind # "ok" THEN EmptyDict
    ELSE [title |-> Get(file.info, "/Title", <<>>),
          author |-> Get(file.info, "/Author", <<>>),
          subject |-> Get(file.info, "/Subject", <<>>),
          creator |-> Get(file.info, "/Creator", <<>>)]

----------------------------------------------------------------------------
(* Field Analyzer: analyze_with_perplexity *)

V_T ==
    <<"T">>

V_A ==
    <<"A">>

V_K ==
    <<"k", "1", ",", " ", "k", "2">>

V_S ==
    <<"S">>

V_Q ==
    <<"?">>

\* texts the service may return that json.loads accepts, and the dict each
\* one loads to
J_Full ==
    <<"{", "\"", "t", "i", "t", "l", "e", "\"", ":", "\"", "T", "\"", ",",
      "\"", "a", "u", "t", "h", "o", "r", "\"", ":", "\"", "A", "\"", ",",
      "\"", "k", "e", "y", "w", "o", "r", "d", "s", "\"", ":", "\"", "k",
      "1", ",", " ", "k", "2", "\"", ",", "\"", "s", "u", "m", "m", "a",
      "r", "y", "\"", ":", "\"", "S", "\"", "}">>

J_Spaced ==
    <<"{", "\"", "t", "i", "t", "l", "e", "\"", ":", "\"", "T", "\"", ",",
      "\"", "a", "u", "t", "h", "o", "r", "\"", ":", "\"", "J", "a", "n",
      "e", " ", "D", "o", "e", "\"", ",", "\"", "k", "e", "y", "w", "o",
      "r", "d", "s", "\"", ":", "\"", "k", "1", ",", " ", "k", "2", "\"",
      ",", "\"", "s", "u", "m", "m", "a", "r", "y", "\"", ":", "\"", "S",
      "\"", "}">>

J_AuthorOnly ==
    <<"{", "\"", "a", "u", "t", "h", "o", "r", "\"", ":", "\"", "A", "\"",
      "}">>

J_TitleOnly ==
    <<"{", "\"", "t", "i", "t", "l", "e", "\"", ":", "\"", "T", "\"", "}">>

J_IllegalAuthor ==
    <<"{", "\"", "t", "i", "t", "l", "e", "\"", ":", "\"", "T", "\"", ",",
      "\"", "a", "u", "t", "h", "o", "r", "\"", ":", "\"", "?", "\"", ",",
      "\"", "k", "e", "y", "w", "o", "r", "d", "s", "\"", ":", "\"", "k",
      "1", ",", " ", "k", "2", "\"", ",", "\"", "s", "u", "m", "m", "a",
      "r", "y", "\"", ":", "\"", "S", "\"", "}">>

J_Empty ==
    <<"{", "}">>

JsonTable ==
    {[text |-> J_Full,
      value |-> [title |-> V_T, author |-> V_A, keywords |-> V_K, summary |-> V_S]],
     [text |-> J_Spaced,
      value |-> [title |-> V_T, author |-> T_JaneDoe, keywords |-> V_K, summary |-> V_S]],
     [text |-> J_AuthorOnly, value |-> [author |-> V_A]],
     [text |-> J_TitleOnly, value |-> [title |-> V_T]],
     [text |-> J_IllegalAuthor,
      value |-> [title |-> V_T, author |-> V_Q, keywords |-> V_K, summary |-> V_S]],
     [text |-> J_Empty, value |-> EmptyDict]}

\* json.loads(text): ok is FALSE where it raises JSONDecodeError
JsonLoads(text) ==
    IF \E e \in JsonTable : e.text = text
      THEN [ok |-> TRUE, value |-> (CHOOSE e \in JsonTable : e.text = text).value]
      ELSE [ok |-> FALSE, value |-> EmptyDict]

\* re.search(r'\{.*\}', content, re.DOTALL) finds a match
HasBraceSpan(content) ==
    \E i \in 1..Len(content) :
        content[i] = "{" /\ \E j \in (i + 1)..Len(content) : content[j] = "}"

\* json_match.group(): from the first '{' to the last '}'
BraceSpan(content) ==
    LET i == CHOOSE k \in 1..Len(content) :
                   content[k] = "{" /\ \A m \in 1..(k - 1) : content[m] # "{"
        j == CHOOSE k \in 1..Len(content) :
                   content[k] = "}" /\ \A m \in (k + 1)..Len(content) : content[m] # "}"
    IN  SubSeq(content, i, j)

FallbackKeywords ==
    <<"\"", "a", "c", "a", "d", "e", "m", "i", "c", " ", "p", "a", "p",
      "e", "r", "\"", ",", " ", "\"", "r", "e", "s", "e", "a", "r", "c",
      "h", "\"", ",", " ", "\"", "a", "n", "a", "l", "y", "s", "i", "s",
      "\"">>

FallbackSummary ==
    <<"T", "h", "i", "s", " ", "d", "o", "c", "u", "m", "e", "n", "t", " ",
      "r", "e", "q", "u", "i", "r", "e", "s", " ", "m", "a", "n", "u", "a",
      "l", " ", "r", "e", "v", "i", "e", "w", " ", "f", "o", "r", " ", "p",
      "r", "o", "p", "e", "r", " ", "s", "u", "m", "m", "a", "r", "i", "z",
      "a", "t", "i", "o", "n", ".">>

\* the dict returned by the `except Exception` branch
FallbackData(pdf_metadata) ==
    [title |-> Get(pdf_metadata, "title", UnknownTitle),
     author |-> Get(pdf_metadata, "author", UnknownAuthor),
     keywords |-> FallbackKeywords,
     summary |-> FallbackSummary]

\* The outcome of the external call: status "ok" with the text of
\* choices[0].message.content, or a failure raised by requests.post,
\* raise_for_status, response.json() or the indexing of the payload.
CallFailures == {"network_error", "http_error", "bad_payload"}

analyze_with_perplexity(pdf_text, pdf_metadata, response) ==
    IF response.status \in CallFailures THEN FallbackData(pdf_metadata)
    ELSE LET content == response.content
         IN  IF HasBraceSpan(content)
               THEN LET loaded == JsonLoads(BraceSpan(content))
                    IN  IF loaded.ok THEN loaded.value
                        ELSE parse_text_response(content)
               ELSE parse_text_response(content)

----------------------------------------------------------------------------
(* SpecAnalyze: the Extractor and the Field Analyzer on every file of      *)
(* PdfFiles and every outcome of the external call in AnalyzeResponses     *)

C_Wrapped ==
    <<"H", "e", "r", "e", ":", " ", "{", "\"", "t", "i", "t", "l", "e",
      "\"", ":", "\"", "T", "\"", ",", "\"", "a", "u", "t", "h", "o", "r",
      "\"", ":", "\"", "A", "\"", ",", "\"", "k", "e", "y", "w", "o", "r",
      "d", "s", "\"", ":", "\"", "k", "1", ",", " ", "k", "2", "\"", ",",
      "\"", "s", "u", "m", "m", "a", "r", "y", "\"", ":", "\"", "S", "\"",
      "}", " ", "D", "o", "n", "e", ".">>

C_Malformed ==
    <<"{", "t", "i", "t", "l", "e", ":", " ", "T", "}">>

C_AuthorLine ==
    <<"A", "u", "t", "h", "o", "r", ":", " ", "J", "a", "n", "e", " ", "D",
      "o", "e">>

C_EmptyTitle ==
    <<"T", "i", "t", "l", "e", ":">>

C_Prose ==
    <<"R", "e", "s", "u", "l", "t", "\n", "T", "I", "T", "L", "E", ":",
      " ", "\"", "T", "\"", "\n", "a", "u", "t", "h", "o", "r", ":", " ",
      "A", "\n", "n", "o", " ", "f", "i", "e", "l", "d", "s", " ", "h",
      "e", "r", "e">>

AnalyzeContents ==
    {J_Full, J_Spaced, J_AuthorOnly, J_TitleOnly, J_IllegalAuthor, J_Empty,
     C_Wrapped, C_Malformed, C_AuthorLine, C_EmptyTitle, C_Prose, <<>>}

AnalyzeResponses ==
    {[status |-> f, content |-> <<>>] : f \in CallFailures}
        \cup {[status |-> "ok", content |-> c] : c \in AnalyzeContents}

\* pdf_text = extract_pdf_text(pdf_path); pdf_metadata = get_pdf_metadata(pdf_path)
AnaExtract ==
    /\ a_pc = "extract"
    /\ a_text' = extract_pdf_text(a_file)
    /\ a_metadata' = get_pdf_metadata(a_file)
    /\ a_pc' = "analyze"
    /\ UNCHANGED <<a_file, a_response, a_data>>
    /\ UNCHANGED <<sanVars, parseVars, pipeVars>>

\* analyzed_data = analyze_with_perplexity(pdf_text, pdf_metadata)
AnaAnalyze ==
    /\ a_pc = "analyze"
    /\ a_data' = analyze_with_perplexity(a_text, a_metadata, a_response)
    /\ a_pc' = "done"
    /\ UNCHANGED <<a_file, a_response, a_text, a_metadata>>
    /\ UNCHANGED <<sanVars, parseVars, pipeVars>>

\* C1: whatever the text, the metadata and the outcome of the call, the
\* record analyze returns has title, author, keywords and summary, none
\* of them empty.
C1_AllFieldsPopulated ==
    a_pc = "done" =>
        \A f \in Fields : f \in DOMAIN a_data /\ a_data[f] # <<>>

\* the document itself carries the information field
DocHas(file, key) == file.kind = "ok" /\ key \in DOMAIN file.info

\* C7: when the call fails, title and author are the document's metadata
\* value where the document has one and 'Unknown Title' / 'Unknown Author'
\* where it has none, with the generic keywords and the manual-review
\* summary.
C7_FallbackMetadataElseDefault ==
    (a_pc = "done" /\ a_response.status \in CallFailures) =>
        /\ a_data.title =
              IF DocHas(a_file, "/Title") THEN a_file.info["/Title"]
              ELSE UnknownTitle
        /\ a_data.author =
              IF DocHas(a_file, "/Author") THEN a_file.info["/Author"]
              ELSE UnknownAuthor
        /\ a_data.keywords = FallbackKeywords
        /\ a_data.summary = FallbackSummary

----------------------------------------------------------------------------
(* The base folder *)

\* A path under base_folder: a file of the base folder itself, or (in_out)
\* a file of the folder out/<folder>.
RootPath(name) == [in_out |-> FALSE, folder |-> <<>>, name |-> name]

OutPath(folder, name) == [in_out |-> TRUE, folder |-> folder, name |-> name]

DotPdf == <<".", "p", "d", "f">>

IndexMd == <<"i", "n", "d", "e", "x", ".", "m", "d">>

NotesTxt == <<"n", "o", "t", "e", "s", ".", "t", "x", "t">>

\* the names of the documents of the base folder, in listing order
DocNames ==
    <<<<"1", ".", "P", "D", "F">>, <<"2", ".", "p", "d", "f">>,
      <<"3", ".", "p", "d", "f">>, <<"4", ".", "p", "d", "f">>>>

PipeFiles == {F_Bare, F_Denied}

\* str.endswith(suffix)
EndsWith(s, suffix) ==
    /\ Len(s) >= Len(suffix)
    /\ SubSeq(s, Len(s) - Len(suffix) + 1, Len(s)) = suffix

\* file.lower().endswith('.pdf')
IsPdfName(name) == EndsWith(Lower(name), DotPdf)

\* every arrangement of the finite set S as a sequence
Orderings(S) ==
    {q \in [1..Cardinality(S) -> S] : \A i, j \in 1..Cardinality(S) : q[i] = q[j] => i = j}

\* the files of the base folder itself, in listing order
RootListing(rootFiles) ==
    SelectSeq(DocNames \o <<NotesTxt>>, LAMBDA n : n \in DOMAIN rootFiles)

\* the locator leaves the out/ directory out
find_pdf_files_skipOut(rootFiles, outFolders) ==
    LET rootPdfs == SelectSeq(RootListing(rootFiles), IsPdfName)
    IN  {[i \in 1..Len(rootPdfs) |-> RootPath(rootPdfs[i])]}

\* The lists find_pdf_files can return: os.walk yields the files of the base
\* folder first, then those of the folders under out/ in the order the
\* directory listing gives them.
find_pdf_files(rootFiles, outFolders) ==
    LET rootPdfs == SelectSeq(RootListing(rootFiles), IsPdfName)
        outPdfs == UNION {{OutPath(F, n) : n \in {m \in DOMAIN outFolders[F] : IsPdfName(m)}} :
                            F \in DOMAIN outFolders}
    IN  {[i \in 1..Len(rootPdfs) |-> RootPath(rootPdfs[i])] \o q : q \in Orderings(outPdfs)}

\* the content of the file at a path
ReadFile(path, rootFiles, outFolders) ==
    IF path.in_out THEN outFolders[path.folder][path.name] ELSE rootFiles[path.name]

\* d[key] = value
Put(d, key, value) ==
    [k \in DOMAIN d \cup {key} |-> IF k = key THEN value ELSE d[k]]

----------------------------------------------------------------------------
(* Emitter: create_markdown_file, process_pdf *)

YearPrefix == <<"2", "0", "2", "5", "_">>

\* the keys create_markdown_file reads from its analyzed_data
TemplateKeys == {"title", "author", "keywords", "summary"}

\* the authors line gets the sanitized author
create_markdown_file_sanitized(data) ==
    [title |-> data["title"],
     authors |-> <<sanitize_filename(data["author"])>>,
     tags |-> data["keywords"],
     body |-> data["summary"]]

\* The text written to index.md, as the values the template puts on its
\* title, authors and tags lines and after the header.
create_markdown_file(data) ==
    [title |-> data["title"],
     authors |-> <<data["author"]>>,
     tags |-> data["keywords"],
     body |-> data["summary"]]

\* One call of process_pdf on the base folder as it is: ok is the value
\* returned, out_exists and out_folders the directory out/ afterwards,
\* folder the folder written to (empty when none was reached), raised
\* whether the call ended in `except Exception`, wrote whether both the
\* copy and index.md were written.
process_pdf(pdf_path, response, rootFiles, outExists, outFolders) ==
    LET file == ReadFile(pdf_path, rootFiles, outFolders)
        pdf_text == extract_pdf_text(file)
        pdf_metadata == get_pdf_metadata(file)
        data == analyze_with_perplexity(pdf_text, pdf_metadata, response)
    IN  IF "author" \notin DOMAIN data
          THEN \* KeyError on analyzed_data['author']
               [ok |-> FALSE, out_exists |-> outExists, out_folders |-> outFolders,
                analyzed_data |-> data, folder |-> <<>>, raised |-> TRUE,
                wrote |-> FALSE]
          ELSE
            LET author_name == sanitize_filename(data["author"])
                folder_name == YearPrefix \o author_name
                \* out_dir.mkdir(exist_ok=True); folder_path.mkdir(exist_ok=True)
                made == IF folder_name \in DOMAIN outFolders THEN outFolders
                        ELSE Put(outFolders, folder_name, EmptyDict)
                new_pdf_name == folder_name \o DotPdf
                new_pdf_path == OutPath(folder_name, new_pdf_name)
                \* shutil.copy2 raises on a source it cannot open and on
                \* a source that is the destination
                copy_raises == file.kind = "denied" \/ pdf_path = new_pdf_path
                copied == Put(made, folder_name, Put(made[folder_name], new_pdf_name, file))
                \* KeyError while the template is filled in
                format_raises == ~(TemplateKeys \subseteq DOMAIN data)
                written == Put(copied, folder_name,
                               Put(copied[folder_name], IndexMd, create_markdown_file(data)))
            IN  IF copy_raises
                  THEN [ok |-> FALSE, out_exists |-> TRUE, out_folders |-> made,
                        analyzed_data |-> data, folder |-> folder_name, raised |-> TRUE,
                        wrote |-> FALSE]
                ELSE IF format_raises
                  THEN [ok |-> FALSE, out_exists |-> TRUE, out_folders |-> copied,
                        analyzed_data |-> data, folder |-> folder_name, raised |-> TRUE,
                        wrote |-> FALSE]
                ELSE [ok |-> TRUE, out_exists |-> TRUE, out_folders |-> written,
                      analyzed_data |-> data, folder |-> folder_name, raised |-> FALSE,
                      wrote |-> TRUE]

----------------------------------------------------------------------------
(* Pipeline Driver: process_all_pdfs *)

\* the outcomes of the external call the runs are checked with
PipeResponses ==
    {[status |-> "network_error", content |-> <<>>],
     [status |-> "ok", content |-> J_Spaced],
     [status |-> "ok", content |-> J_AuthorOnly],
     [status |-> "ok", content |-> J_TitleOnly]}

\* what the run that ends leaves for the next one to be compared with
RunRecord == [attempted |-> idx, emitted |-> n_emitted]

\* no call of process_pdf has returned yet
NoCall == [ok |-> FALSE, folder |-> <<>>, wrote |-> FALSE]

\* pdf_files = self.find_pdf_files(); if not pdf_files: return
RunNoFiles ==
    /\ pc \in {"idle", "done"}
    /\ run < MaxRuns
    /\ <<>> \in find_pdf_files(root_files, out_folders)
    /\ \E t \in BOOLEAN : test' = t
    /\ pdf_files' = <<>>
    /\ idx' = 0
    /\ successful' = 0
    /\ failed' = 0
    /\ pc' = "done"
    /\ run' = run + 1
    /\ prev_run' = RunRecord
    /\ n_raised' = 0
    /\ n_emitted' = 0
    /\ last' = NoCall
    /\ analyzed_data' = EmptyDict
    /\ UNCHANGED fsVars
    /\ UNCHANGED <<sanVars, parseVars, anaVars>>

\* pdf_files = self.find_pdf_files(); if test: pdf_files = pdf_files[:1];
\* successful = 0; failed = 0
RunStart ==
    /\ pc \in {"idle", "done"}
    /\ run < MaxRuns
    /\ \E t \in BOOLEAN, found \in find_pdf_files(root_files, out_folders) :
          /\ found # <<>>
          /\ test' = t
          /\ pdf_files' = IF t THEN SubSeq(found, 1, 1) ELSE found
    /\ idx' = 0
    /\ successful' = 0
    /\ failed' = 0
    /\ pc' = "loop"
    /\ run' = run + 1
    /\ prev_run' = RunRecord
    /\ n_raised' = 0
    /\ n_emitted' = 0
    /\ last' = NoCall
    /\ analyzed_data' = EmptyDict
    /\ UNCHANGED fsVars
    /\ UNCHANGED <<sanVars, parseVars, anaVars>>

\* the first failed document ends the loop
LoopIteration_abortOnError ==
    /\ pc = "loop"
    /\ idx < Len(pdf_files)
    /\ \E response \in PipeResponses :
          \E r \in {process_pdf(pdf_files[idx + 1], response,
                               root_files, out_exists, out_folders)} :
              /\ out_exists' = r.out_exists
              /\ out_folders' = r.out_folders
              /\ analyzed_data' = r.analyzed_data
              /\ successful' = IF r.ok THEN successful + 1 ELSE successful
              /\ failed' = IF r.ok THEN failed ELSE failed + 1
              /\ last' = [ok |-> r.ok, folder |-> r.folder, wrote |-> r.wrote]
              /\ n_raised' = IF r.raised THEN n_raised + 1 ELSE n_raised
              /\ n_emitted' = IF r.wrote THEN n_emitted + 1 ELSE n_emitted
              /\ pc' = IF r.ok THEN "loop" ELSE "done"
    /\ idx' = idx + 1
    /\ UNCHANGED <<root_files, test, pdf_files, run, prev_run>>
    /\ UNCHANGED <<sanVars, parseVars, anaVars>>

\* One iteration of `for i, pdf_path in enumerate(pdf_files)`: process_pdf
\* on the next path, then successful += 1 or failed += 1.  last keeps what
\* the call returned and the folder it wrote to, n_raised counts the calls
\* that ended in `except Exception`, n_emitted those that wrote both the
\* copy and index.md.
LoopIteration ==
    /\ pc = "loop"
    /\ idx < Len(pdf_files)
    /\ \E response \in PipeResponses :
          \E r \in {process_pdf(pdf_files[idx + 1], response,
                               root_files, out_exists, out_folders)} :
              /\ out_exists' = r.out_exists
              /\ out_folders' = r.out_folders
              /\ analyzed_data' = r.analyzed_data
              /\ successful' = IF r.ok THEN successful + 1 ELSE successful
              /\ failed' = IF r.ok THEN failed ELSE failed + 1
              /\ last' = [ok |-> r.ok, folder |-> r.folder, wrote |-> r.wrote]
              /\ n_raised' = IF r.raised THEN n_raised + 1 ELSE n_raised
              /\ n_emitted' = IF r.wrote THEN n_emitted + 1 ELSE n_emitted
    /\ idx' = idx + 1
    /\ UNCHANGED <<root_files, test, pdf_files, pc, run, prev_run>>
    /\ UNCHANGED <<sanVars, parseVars, anaVars>>

\* the loop is over: the counts are printed
LoopExit ==
    /\ pc = "loop"
    /\ idx = Len(pdf_files)
    /\ pc' = "done"
    /\ UNCHANGED <<fsVars, test, pdf_files, idx, successful, failed, histVars>>
    /\ UNCHANGED <<sanVars, parseVars, anaVars>>

----------------------------------------------------------------------------
(* Properties of the runs *)

Range(q) == {q[i] : i \in 1..Len(q)}

\* the folder out/<F> holds the copy <F>.pdf and index.md
FolderHasBoth(F) ==
    /\ F \in DOMAIN out_folders
    /\ {F \o DotPdf, IndexMd} \subseteq DOMAIN out_folders[F]

\* C2: a full-mode run attempts every located document, one after the
\* other whatever the earlier ones did, and ends with succeeded + failed
\* equal to their number; every document that raised is counted as failed,
\* so failed is at least 1 once one raised, and every document that did
\* not raise is emitted: its copy and its index.md are in its folder.
C2_FailureIsolated ==
    (pc \in {"loop", "done"} /\ ~test) =>
        /\ successful + failed = idx
        /\ failed = n_raised
        /\ n_raised >= 1 => failed >= 1
        /\ successful = n_emitted
        /\ (idx >= 1 /\ last.ok) => (last.wrote /\ FolderHasBoth(last.folder))
        /\ pc = "done" => idx = Len(pdf_files)

C2_Witness ==
    /\ pc = "done"
    /\ ~test
    /\ Len(pdf_files) >= 2
    /\ n_raised >= 1
    /\ successful >= 1
    /\ last.ok
    /\ FolderHasBoth(last.folder)

FilesystemSafe(n) ==
    /\ Chars(n) \cap InvalidChars = {}
    /\ n # <<>> => n[1] # "_" /\ n[Len(n)] # "_"
    /\ ~HasDoubleUnderscore(n)

\* C6: every folder name the Emitter builds, '2025_' followed by the
\* sanitized author, is filesystem-safe, also when the author sanitizes to
\* the empty string.
C6_FolderNamesSafe == \A F \in DOMAIN out_folders : FilesystemSafe(F)

\* C8: after any run every folder under out/ holds exactly two files, the
\* copy <folder>.pdf and index.md.
C8_FoldersHoldTwoFiles ==
    pc = "done" =>
        \A F \in DOMAIN out_folders :
            DOMAIN out_folders[F] = {F \o DotPdf, IndexMd}

\* every PDF under the base folder, the documents of the base folder and
\* the copies under out/, is in the list of the run that starts
LocatesOriginalsAndCopies ==
    /\ \A n \in DOMAIN root_files : IsPdfName(n) => RootPath(n) \in Range(pdf_files)
    /\ \A F \in DOMAIN out_folders :
          F \o DotPdf \in DOMAIN out_folders[F] =>
              OutPath(F, F \o DotPdf) \in Range(pdf_files)

\* C10 as stated: a run that follows a run that emitted a document locates
\* and attempts the original documents and every copy under out/ the
\* earlier run wrote, strictly more documents than the earlier run
\* attempted.
C10_NextRunAttemptsMore ==
    /\ (pc = "loop" /\ idx = 0 /\ run >= 2 /\ prev_run.emitted >= 1) =>
          LocatesOriginalsAndCopies
    /\ (pc = "done" /\ run >= 2 /\ prev_run.emitted >= 1) =>
          (idx = Len(pdf_files) /\ idx > prev_run.attempted)

\* C10 amended: after a first run, on a base folder with no out/
\* directory, that emitted a document, a second run in full mode locates
\* and attempts the original documents and every copy under out/ the first
\* run wrote, strictly more documents than the first run attempted.
C10_SecondFullRunAttemptsMore ==
    /\ (pc = "loop" /\ idx = 0 /\ run = 2 /\ ~test /\ prev_run.emitted >= 1) =>
          LocatesOriginalsAndCopies
    /\ (pc = "done" /\ run = 2 /\ ~test /\ prev_run.emitted >= 1) =>
          (idx = Len(pdf_files) /\ idx > prev_run.attempted)

C10_Witness ==
    /\ pc = "done"
    /\ run = 2
    /\ ~test
    /\ prev_run.emitted >= 1
    /\ idx = Len(pdf_files)
    /\ idx > prev_run.attempted
    /\ \E p \in Range(pdf_files) : p.in_out

----------------------------------------------------------------------------
(* Specifications *)

SanIdle ==
    /\ s_name = <<>>
    /\ s_once = <<>>
    /\ s_twice = <<>>
    /\ s_pc = "off"

ParseIdle ==
    /\ p_content = <<>>
    /\ p_lines = <<>>
    /\ p_result = EmptyDict
    /\ p_pc = "off"

AnaIdle ==
    /\ a_file = EmptyDict
    /\ a_response = EmptyDict
    /\ a_text = <<>>
    /\ a_metadata = EmptyDict
    /\ a_data = EmptyDict
    /\ a_pc = "off"

PipeIdle ==
    /\ root_files = EmptyDict
    /\ out_exists = FALSE
    /\ out_folders = EmptyDict
    /\ test = FALSE
    /\ pdf_files = <<>>
    /\ idx = 0
    /\ successful = 0
    /\ failed = 0
    /\ pc = "off"
    /\ analyzed_data = EmptyDict
    /\ last = NoCall
    /\ n_raised = 0
    /\ n_emitted = 0
    /\ run = 0
    /\ prev_run = [attempted |-> 0, emitted |-> 0]

InitSanitize ==
    /\ s_name \in SanInputs
    /\ s_once = <<>>
    /\ s_twice = <<>>
    /\ s_pc = "input"
    /\ ParseIdle /\ AnaIdle /\ PipeIdle

NextSanitize == SanitizeOnce \/ SanitizeTwice

SpecSanitize == InitSanitize /\ [][NextSanitize]_vars

InitParse ==
    /\ p_content \in ParseContents
    /\ p_lines = <<>>
    /\ p_result = ParseDefaults
    /\ p_pc = "call"
    /\ SanIdle /\ AnaIdle /\ PipeIdle

NextParse == ParseStart \/ ParseStep \/ ParseReturn

SpecParse == InitParse /\ [][NextParse]_vars

InitAnalyze ==
    /\ a_file \in PdfFiles
    /\ a_response \in AnalyzeResponses
    /\ a_text = <<>>
    /\ a_metadata = EmptyDict
    /\ a_data = EmptyDict
    /\ a_pc = "extract"
    /\ SanIdle /\ ParseIdle /\ PipeIdle

NextAnalyze == AnaExtract \/ AnaAnalyze

SpecAnalyze == InitAnalyze /\ [][NextAnalyze]_vars

InitPipeline ==
    /\ \E n \in 0..MaxDocs :
          root_files \in [{DocNames[i] : i \in 1..n} \cup {NotesTxt} -> PipeFiles]
    /\ out_exists = FALSE
    /\ out_folders = EmptyDict
    /\ test = FALSE
    /\ pdf_files = <<>>
    /\ idx = 0
    /\ successful = 0
    /\ failed = 0
    /\ pc = "idle"
    /\ analyzed_data = EmptyDict
    /\ last = NoCall
    /\ n_raised = 0
    /\ n_emitted = 0
    /\ run = 0
    /\ prev_run = [attempted |-> 0, emitted |-> 0]
    /\ SanIdle /\ ParseIdle /\ AnaIdle

Init == InitPipeline

Next == RunNoFiles \/ RunStart \/ LoopIteration \/ LoopExit

Spec == Init /\ [][Next]_vars

====
